---- MODULE Spec2Model ----
(***************************************************************************)
(* BaseDataset (src/base_dataset.py): construction of a dataset by one or  *)
(* several processes that share one cache file, under the                  *)
(* torch_distributed_zero_first barrier, followed by the cache-file name   *)
(* as a function of the fingerprint.                                       *)
(***************************************************************************)
EXTENDS Integers, Sequences, FiniteSets, TLC

VARIABLES
    local_rank,        \* sequence: local_rank argument of each process of the run
    mode,              \* mode argument, a string (sequence of tokens)
    args,              \* multitask, seed, shuffle, train_subset, loader draws
    output_format_type,\* data_args.output_format_type of this construction
    overwrite_cache,   \* overwrite_cache argument of this construction
    gen,               \* number of the construction (datasets built one after another)
    file,              \* the cache file cached_data_file
    arrived,           \* processes inside torch.distributed.barrier()
    pc,                \* position of each process in __init__
    attrs,             \* attributes assigned on self so far
    examples,          \* self.examples
    features,          \* self.features
    indices,           \* self.indices
    effective_size,    \* self.effective_size
    rng,               \* state of the process-wide random generator
    log,               \* methods each process has called, in call order
    exists_at_check,   \* what os.path.exists returned at line 81
    observed,          \* state of the cache file seen by torch.load
    split_calls,       \* splits handed to load_data_single_split, in call order
    ret,               \* what the last __len__, __getitem__ or get_example returned
    it,                \* the generator of generate_output_sentences
    warn,              \* outcome of the last _warn_max_sequence_length call
    disk,              \* (path spec) cache files on disk: path and writer
    loaded,            \* (path spec) loads done: reader and writer fingerprint
    nconstr            \* (path spec) constructions done

vars == <<local_rank, mode, args, output_format_type, overwrite_cache, gen, file,
          arrived, pc, attrs, examples, features, indices, effective_size, rng,
          log, exists_at_check, observed, split_calls, ret, it, warn,
          disk, loaded, nconstr>>

mainVars == <<local_rank, mode, args, output_format_type, overwrite_cache, gen, file,
              arrived, pc, attrs, examples, features, indices, effective_size, rng,
              log, exists_at_check, observed, split_calls>>

pathVars == <<disk, loaded, nconstr>>

useVars == <<ret, it, warn>>

(***************************************************************************)
(* Bounds                                                                  *)
(***************************************************************************)
MaxProcs == 2
MaxConstructions == 2
NTrain == 2
NDev == 1
NTest == 10
MaxSentences == 2
MaxPathConstructions == 2

(***************************************************************************)
(* Inputs                                                                  *)
(***************************************************************************)
NoSeed == -1

CountRank(s, r) == Cardinality({i \in DOMAIN s : s[i] = r})

\* Local ranks a launcher hands out: -1 to the single process of a
\* non-distributed run; otherwise every node runs the same number of
\* processes and numbers them 0, 1, ...
RankConfigs ==
    {<<-1>>} \cup
    UNION {{s \in [1..n -> 0..(n - 1)] :
              /\ \A i \in 1..(n - 1) : s[i] <= s[i + 1]
              /\ \A r \in 1..(n - 1) :
                    CountRank(s, r) \in {0, CountRank(s, 0)}
              /\ \A r \in 2..(n - 1) :
                    CountRank(s, r) > 0 => CountRank(s, r - 1) > 0}
           : n \in 1..MaxProcs}

\* mode: a string (a sequence of tokens, "," among them) or a list of split names
str(tokens) == [type |-> "str", value |-> tokens]
list(items) == [type |-> "list", value |-> items]

Modes == {str(<<"train">>), str(<<"train", ",", "dev">>)}

OutputFormatTypes == {"short-relation", "short", "long", "original", "None", "other"}

\* multitask, seed, shuffle, train_subset = num/den, and the number of draws
\* the per-split loader takes from the random generator
ArgSets ==
    {[multitask |-> FALSE, seed |-> NoSeed, shuffle |-> TRUE, num |-> 1, den |-> 1, draws |-> 0],
     [multitask |-> TRUE,  seed |-> 1,      shuffle |-> TRUE, num |-> 1, den |-> 2, draws |-> 1]}

World == DOMAIN local_rank

\* the dataset instance built by process p in construction g
Instance(p, g) == [proc |-> p, gen |-> g, copy |-> FALSE]
NoDataset == [proc |-> 0, gen |-> 0, copy |-> FALSE]

(***************************************************************************)
(* load_data                                                               *)
(***************************************************************************)
RECURSIVE str_split(_)
\* mode.split(','): the pieces between the commas
str_split(s) ==
    IF \A i \in DOMAIN s : s[i] # ","
    THEN <<s>>
    ELSE LET k == CHOOSE i \in DOMAIN s :
                    s[i] = "," /\ \A j \in 1..(i - 1) : s[j] # ","
         IN  <<SubSeq(s, 1, k - 1)>> \o str_split(SubSeq(s, k + 1, Len(s)))

\* the abstract per-split loader: the examples a split holds, in file order
load_data_single_split(split) ==
    IF split = <<"train">>
    THEN [i \in 1..NTrain |-> [id |-> i, dataset |-> NoDataset]]
    ELSE IF split = <<"dev">>
    THEN [i \in 1..NDev |-> [id |-> NTrain + i, dataset |-> NoDataset]]
    ELSE IF split = <<"test">>
    THEN [i \in 1..NTest |-> [id |-> NTrain + NDev + i, dataset |-> NoDataset]]
    ELSE <<>>

RECURSIVE load_splits(_)
load_splits(splits) ==
    IF splits = <<>> THEN <<>>
    ELSE load_data_single_split(Head(splits)) \o load_splits(Tail(splits))

\* lines 159-163: a string is split at its commas, a list or tuple is taken as is
splits_of(m) == IF m.type = "str" THEN str_split(m.value) ELSE m.value

\* load_data stopping after the first split
load_data_first_split(m) == load_data_single_split(Head(splits_of(m)))

\* lines 157-168
load_data(m) == load_splits(splits_of(m))

(***************************************************************************)
(* compute_features                                                        *)
(***************************************************************************)
format_input(example, multitask) ==
    [fmt |-> "format_input", ex |-> example.id, multitask |-> multitask]

format_output(method, example) == [fmt |-> method, ex |-> example.id]

\* the if/elif chain of lines 200-209: no branch taken leaves the list empty
output_sentences(exs, oft) ==
    IF oft = "short-relation"
    THEN [k \in DOMAIN exs |-> format_output("format_short_output_with_relation", exs[k])]
    ELSE IF oft = "short"
    THEN [k \in DOMAIN exs |-> format_output("format_short_output", exs[k])]
    ELSE IF oft = "long"
    THEN [k \in DOMAIN exs |-> format_output("format_long_output", exs[k])]
    ELSE IF oft = "original"
    THEN [k \in DOMAIN exs |-> format_output("format_short_output_", exs[k])]
    ELSE <<>>

input_sentences(exs, multitask) ==
    [k \in DOMAIN exs |-> format_input(exs[k], multitask)]

Min(a, b) == IF a <= b THEN a ELSE b

\* zip stops at the shorter of the two lists
zip_features(ins, outs) ==
    [k \in 1..Min(Len(ins), Len(outs)) |->
        [input_sentence |-> ins[k], output_sentence |-> outs[k]]]

compute_features(exs, oft, multitask) ==
    zip_features(input_sentences(exs, multitask), output_sentences(exs, oft))

(***************************************************************************)
(* shuffle and effective size                                              *)
(***************************************************************************)
seed_state(seed) == 10 * seed

range(n) == [k \in 1..n |-> k - 1]

\* random.shuffle: a permutation fixed by the generator's state
shuffle_list(s, r) ==
    IF Len(s) = 0 THEN s
    ELSE [k \in 1..Len(s) |-> s[((k - 1 + r) % Len(s)) + 1]]

\* rounding num/den with ties away from zero
round_half_up(num, den) == (2 * num + den) \div (2 * den)

\* Python's round() of num/den: to the nearest integer, ties to even
round(num, den) ==
    LET q == num \div den
        r == num % den
    IN  IF 2 * r < den THEN q
        ELSE IF 2 * r > den THEN q + 1
        ELSE IF q % 2 = 0 THEN q ELSE q + 1

(***************************************************************************)
(* The cache file                                                          *)
(***************************************************************************)
AbsentFile  == [state |-> "absent",   examples |-> <<>>, features |-> <<>>]
PartialFile == [state |-> "partial",  examples |-> <<>>, features |-> <<>>]
CorruptFile == [state |-> "corrupt",  examples |-> <<>>, features |-> <<>>]

path_exists(f) == f.state # "absent"

\* pickling follows the back-reference: what comes back from the file refers
\* to a copy of the dataset instance that was saved with the example
pickle_example(ex) ==
    IF ex.dataset = NoDataset THEN ex
    ELSE [ex EXCEPT !.dataset = [@ EXCEPT !.copy = TRUE]]

\* the dict written with its examples in reverse order
saved_reversed(exs, fts) ==
    [state |-> "complete",
     examples |-> [k \in DOMAIN exs |-> pickle_example(exs[Len(exs) + 1 - k])],
     features |-> fts]

\* torch.save of {'examples': ..., 'features': ...}, once finished
saved(exs, fts) ==
    [state |-> "complete",
     examples |-> [k \in DOMAIN exs |-> pickle_example(exs[k])],
     features |-> fts]

\* lines 131-132: d = torch.load(...); d['examples'], d['features']
cached_pair(f) == [examples |-> f.examples, features |-> f.features]

is_leader(r) == r \in {-1, 0}

\* line 81 with the file reduced to what os.path.exists sees
cache_hit_ignoring_overwrite(f, overwrite) == path_exists(f)

\* line 81: os.path.exists(cached_data_file) and not overwrite_cache
cache_hit(f, overwrite) == path_exists(f) /\ ~overwrite

\* torch.load accepting whatever bytes the file holds
deserializes_anything(f) == TRUE

\* line 131: torch.load returns only for a completely written file
deserializes(f) == f.state = "complete"

\* the save skipped for every process
after_compute_no_save(r) == "indices"

\* line 98: only local ranks -1 and 0 go on to save_data
after_compute(r) == IF is_leader(r) THEN "save_data" ELSE "indices"

(***************************************************************************)
(* __init__, step by step                                                  *)
(***************************************************************************)
MainInit ==
    /\ local_rank \in RankConfigs
    /\ mode \in Modes
    /\ args \in ArgSets
    /\ output_format_type \in OutputFormatTypes
    /\ overwrite_cache \in BOOLEAN
    /\ gen = 1
    /\ file \in {AbsentFile, CorruptFile}
    /\ arrived = {}
    /\ pc = [p \in World |-> "start"]
    /\ attrs = [p \in World |-> {}]
    /\ examples = [p \in World |-> <<>>]
    /\ features = [p \in World |-> <<>>]
    /\ indices = [p \in World |-> <<>>]
    /\ effective_size = [p \in World |-> 0]
    /\ rng = [p \in World |-> 0]
    /\ log = [p \in World |-> <<>>]
    /\ exists_at_check = [p \in World |-> FALSE]
    /\ observed = [p \in World |-> "none"]
    /\ split_calls = [p \in World |-> <<>>]

PathIdle == disk = {} /\ loaded = {} /\ nconstr = 0

\* no operation called on the dataset yet
NoRet == [op |-> "none", i |-> 0, raised |-> FALSE, val |-> 0]
NoGenerator ==
    [st |-> "none", batch_size |-> 0, boundary_in_where |-> "None", i |-> 0, j |-> 0,
     batch |-> <<>>, sizes |-> <<>>, yielded |-> <<>>]
NoWarn == [called |-> FALSE, max_sequence_length |-> 0, sentences |-> <<>>,
           warned |-> FALSE, raised |-> FALSE]

UseIdle ==
    /\ ret = [p \in World |-> NoRet]
    /\ it = [p \in World |-> NoGenerator]
    /\ warn = NoWarn

Init == MainInit /\ PathIdle /\ UseIdle

Goto(p, to) == pc' = [pc EXCEPT ![p] = to]
Call(p, what) == log' = [log EXCEPT ![p] = Append(@, what)]

\* lines 49-77: seed the generator, enter torch_distributed_zero_first
Enter(p) ==
    /\ pc[p] = "start"
    /\ rng' = IF args.seed # NoSeed
              THEN [rng EXCEPT ![p] = seed_state(args.seed)] ELSE rng
    /\ IF ~is_leader(local_rank[p])
       THEN /\ arrived' = arrived \cup {p}
            /\ Goto(p, "barrier")
       ELSE /\ arrived' = arrived
            /\ Goto(p, "check")
    /\ UNCHANGED <<local_rank, mode, args, output_format_type, overwrite_cache, gen,
                   file, attrs, examples, features, indices, effective_size, log,
                   exists_at_check, observed, pathVars, useVars, split_calls>>

\* torch.distributed.barrier() returns once every process of the run is in it
BarrierPass(p) ==
    /\ pc[p] \in {"barrier", "exit_wait"}
    /\ arrived = World
    /\ Goto(p, IF pc[p] = "barrier" THEN "check" ELSE "done")
    /\ UNCHANGED <<local_rank, mode, args, output_format_type, overwrite_cache, gen,
                   file, arrived, attrs, examples, features, indices, effective_size,
                   rng, log, exists_at_check, observed, pathVars, useVars, split_calls>>

\* line 81
CheckCache(p) ==
    /\ pc[p] = "check"
    /\ exists_at_check' = [exists_at_check EXCEPT ![p] = path_exists(file)]
    /\ Goto(p, IF cache_hit(file, overwrite_cache)
               THEN "load_cached" ELSE "load_schema")
    /\ UNCHANGED <<local_rank, mode, args, output_format_type, overwrite_cache, gen,
                   file, arrived, attrs, examples, features, indices, effective_size,
                   rng, log, observed, pathVars, useVars, split_calls>>

\* lines 82, 130-132: torch.load raises on a file that does not deserialize
load_cached_data(p) ==
    /\ pc[p] = "load_cached"
    /\ Call(p, "load_cached_data")
    /\ observed' = [observed EXCEPT ![p] = file.state]
    /\ IF deserializes(file)
       THEN /\ examples' = [examples EXCEPT ![p] = cached_pair(file).examples]
            /\ features' = [features EXCEPT ![p] = cached_pair(file).features]
            /\ attrs' = [attrs EXCEPT ![p] = @ \cup {"examples", "features"}]
            /\ Goto(p, "indices")
       ELSE /\ UNCHANGED <<examples, features, attrs>>
            /\ Goto(p, "failed")
    /\ UNCHANGED <<local_rank, mode, args, output_format_type, overwrite_cache, gen,
                   file, arrived, indices, effective_size, rng, exists_at_check,
                   pathVars, useVars, split_calls>>

\* lines 85, 140-144
load_schema(p) ==
    /\ pc[p] = "load_schema"
    /\ Call(p, "load_schema")
    /\ Goto(p, "load_data")
    /\ UNCHANGED <<local_rank, mode, args, output_format_type, overwrite_cache, gen,
                   file, arrived, attrs, examples, features, indices, effective_size,
                   rng, exists_at_check, observed, pathVars, useVars, split_calls>>

\* line 86: the per-split loader may draw from the generator, and may raise
LoadData(p) ==
    /\ pc[p] = "load_data"
    /\ Call(p, "load_data")
    /\ \/ /\ examples' = [examples EXCEPT ![p] = load_data(mode)]
          /\ split_calls' = [split_calls EXCEPT ![p] = splits_of(mode)]
          /\ attrs' = [attrs EXCEPT ![p] = @ \cup {"examples"}]
          /\ rng' = [rng EXCEPT ![p] = @ + args.draws]
          /\ Goto(p, "backrefs")
       \/ /\ UNCHANGED <<examples, attrs, rng, split_calls>>
          /\ Goto(p, "failed")
    /\ UNCHANGED <<local_rank, mode, args, output_format_type, overwrite_cache, gen,
                   file, arrived, features, indices, effective_size, exists_at_check,
                   observed, pathVars, useVars>>

\* lines 89-90
AssignBackrefs(p) ==
    /\ pc[p] = "backrefs"
    /\ Call(p, "backrefs")
    /\ examples' = [examples EXCEPT ![p] =
                        [k \in DOMAIN @ |-> [@[k] EXCEPT !.dataset = Instance(p, gen)]]]
    /\ Goto(p, "compute_features")
    /\ UNCHANGED <<local_rank, mode, args, output_format_type, overwrite_cache, gen,
                   file, arrived, attrs, features, indices, effective_size, rng,
                   exists_at_check, observed, pathVars, useVars, split_calls>>

\* lines 92-98
ComputeFeatures(p) ==
    /\ pc[p] = "compute_features"
    /\ Call(p, "compute_features")
    /\ features' = [features EXCEPT ![p] =
                        compute_features(examples[p], output_format_type, args.multitask)]
    /\ attrs' = [attrs EXCEPT ![p] = @ \cup {"features"}]
    /\ Goto(p, after_compute(local_rank[p]))
    /\ UNCHANGED <<local_rank, mode, args, output_format_type, overwrite_cache, gen,
                   file, arrived, examples, indices, effective_size, rng,
                   exists_at_check, observed, pathVars, useVars, split_calls>>

\* lines 100, 134-138: torch.save opens (and truncates) the file ...
SaveBegin(p) ==
    /\ pc[p] = "save_data"
    /\ Call(p, "save_data")
    /\ file' = PartialFile
    /\ Goto(p, "saving")
    /\ UNCHANGED <<local_rank, mode, args, output_format_type, overwrite_cache, gen,
                   arrived, attrs, examples, features, indices, effective_size, rng,
                   exists_at_check, observed, pathVars, useVars, split_calls>>

\* ... and later finishes writing it
SaveEnd(p) ==
    /\ pc[p] = "saving"
    /\ file' = saved(examples[p], features[p])
    /\ Goto(p, "indices")
    /\ UNCHANGED <<local_rank, mode, args, output_format_type, overwrite_cache, gen,
                   arrived, attrs, examples, features, indices, effective_size, rng,
                   log, exists_at_check, observed, pathVars, useVars, split_calls>>

\* lines 103-108, then the end of the with block
ComputeIndices(p) ==
    /\ pc[p] = "indices"
    /\ Call(p, "indices")
    /\ LET n == Len(examples[p])
           doShuffle == args.seed # NoSeed /\ args.shuffle
       IN  /\ indices' = [indices EXCEPT ![p] =
                            IF doShuffle THEN shuffle_list(range(n), rng[p]) ELSE range(n)]
           /\ rng' = IF doShuffle THEN [rng EXCEPT ![p] = @ + 1] ELSE rng
           /\ effective_size' = [effective_size EXCEPT ![p] = round(args.num * n, args.den)]
    /\ attrs' = [attrs EXCEPT ![p] = @ \cup {"indices", "effective_size"}]
    /\ IF local_rank[p] = 0
       THEN /\ arrived' = arrived \cup {p}
            /\ Goto(p, "exit_wait")
       ELSE /\ arrived' = arrived
            /\ Goto(p, "done")
    /\ UNCHANGED <<local_rank, mode, args, output_format_type, overwrite_cache, gen,
                   file, examples, features, exists_at_check, observed, pathVars, useVars, split_calls>>

\* the script builds its next dataset on the same cache file
NewConstruction ==
    /\ gen < MaxConstructions
    /\ \A p \in World : pc[p] = "done"
    /\ gen' = gen + 1
    /\ output_format_type' \in OutputFormatTypes
    /\ overwrite_cache' \in BOOLEAN
    /\ arrived' = {}
    /\ pc' = [p \in World |-> "start"]
    /\ attrs' = [p \in World |-> {}]
    /\ examples' = [p \in World |-> <<>>]
    /\ features' = [p \in World |-> <<>>]
    /\ indices' = [p \in World |-> <<>>]
    /\ effective_size' = [p \in World |-> 0]
    /\ log' = [p \in World |-> <<>>]
    /\ exists_at_check' = [p \in World |-> FALSE]
    /\ observed' = [p \in World |-> "none"]
    /\ split_calls' = [p \in World |-> <<>>]
    /\ ret' = [p \in World |-> NoRet]
    /\ it' = [p \in World |-> NoGenerator]
    /\ UNCHANGED <<local_rank, mode, args, file, rng, warn, pathVars>>

Next ==
    \/ \E p \in World : Enter(p)
    \/ \E p \in World : BarrierPass(p)
    \/ \E p \in World : CheckCache(p)
    \/ \E p \in World : load_cached_data(p)
    \/ \E p \in World : load_schema(p)
    \/ \E p \in World : LoadData(p)
    \/ \E p \in World : AssignBackrefs(p)
    \/ \E p \in World : ComputeFeatures(p)
    \/ \E p \in World : SaveBegin(p)
    \/ \E p \in World : SaveEnd(p)
    \/ \E p \in World : ComputeIndices(p)
    \/ NewConstruction

Spec == Init /\ [][Next]_vars

(***************************************************************************)
(* Use of a constructed dataset: __len__, __getitem__, get_example and     *)
(* generate_output_sentences, on the dataset of a non-distributed run.     *)
(***************************************************************************)
UseModes == Modes \cup {list(<<<<"dev">>, <<"train">>>>), str(<<"test">>)}

UseArgSets ==
    ArgSets \cup
    {[multitask |-> FALSE, seed |-> NoSeed, shuffle |-> TRUE, num |-> 2, den |-> 1, draws |-> 0],
     [multitask |-> FALSE, seed |-> 2,      shuffle |-> TRUE, num |-> 1, den |-> 4, draws |-> 0]}

UseTypes == {"short", "None"}

BatchSizes == {2, 4}

BoundaryModes == {"Encoder", "Decoder", "None"}

UseInit ==
    /\ local_rank = <<-1>>
    /\ mode \in UseModes
    /\ args \in UseArgSets
    /\ output_format_type \in UseTypes
    /\ overwrite_cache = FALSE
    /\ gen = 1
    /\ file = AbsentFile
    /\ arrived = {}
    /\ pc = [p \in World |-> "start"]
    /\ attrs = [p \in World |-> {}]
    /\ examples = [p \in World |-> <<>>]
    /\ features = [p \in World |-> <<>>]
    /\ indices = [p \in World |-> <<>>]
    /\ effective_size = [p \in World |-> 0]
    /\ rng = [p \in World |-> 0]
    /\ log = [p \in World |-> <<>>]
    /\ exists_at_check = [p \in World |-> FALSE]
    /\ observed = [p \in World |-> "none"]
    /\ split_calls = [p \in World |-> <<>>]
    /\ PathIdle
    /\ UseIdle

\* list[k] with k counted from 0 raises IndexError outside the list
in_list(s, k) == k >= 0 /\ k < Len(s)
item(s, k) == s[k + 1]

\* line 119: self.features[self.indices[i]]
getitem_raises(p, i) ==
    ~in_list(indices[p], i) \/ ~in_list(features[p], item(indices[p], i))

\* line 122: self.examples[self.indices[i]]
get_example_raises(p, i) ==
    ~in_list(indices[p], i) \/ ~in_list(examples[p], item(indices[p], i))

\* the positions a caller asks for: the first, the last and the one past the end
probes(p) == {i \in 0..effective_size[p] : i = 0 \/ i >= effective_size[p] - 1}

Returned(p, op, i, v) == ret' = [ret EXCEPT ![p] = [op |-> op, i |-> i, raised |-> FALSE, val |-> v]]
Raised(p, op, i) == ret' = [ret EXCEPT ![p] = [op |-> op, i |-> i, raised |-> TRUE, val |-> 0]]

\* lines 115-116
dunder_len(p) ==
    /\ pc[p] = "done"
    /\ Returned(p, "__len__", 0, effective_size[p])
    /\ UNCHANGED <<mainVars, pathVars, it, warn>>

\* lines 118-119
dunder_getitem(p, i) ==
    /\ pc[p] = "done"
    /\ IF getitem_raises(p, i)
       THEN Raised(p, "__getitem__", i)
       ELSE Returned(p, "__getitem__", i, item(features[p], item(indices[p], i)))
    /\ UNCHANGED <<mainVars, pathVars, it, warn>>

\* get_example handing out the example by removing it from the list
get_example_consuming(p, i) ==
    /\ pc[p] = "done"
    /\ IF get_example_raises(p, i)
       THEN Raised(p, "get_example", i) /\ UNCHANGED examples
       ELSE /\ Returned(p, "get_example", i, item(examples[p], item(indices[p], i)))
            /\ examples' = [examples EXCEPT ![p] =
                    [k \in 1..(Len(@) - 1) |->
                        IF k <= item(indices[p], i) THEN @[k] ELSE @[k + 1]]]
    /\ UNCHANGED <<local_rank, mode, args, output_format_type, overwrite_cache, gen,
                   file, arrived, pc, attrs, features, indices, effective_size, rng,
                   log, exists_at_check, observed, split_calls, pathVars, it, warn>>

\* lines 121-122
get_example(p, i) ==
    /\ pc[p] = "done"
    /\ IF get_example_raises(p, i)
       THEN Raised(p, "get_example", i)
       ELSE Returned(p, "get_example", i, item(examples[p], item(indices[p], i)))
    /\ UNCHANGED <<mainVars, pathVars, it, warn>>

\* lines 245-250: the generator is created; nothing runs before the first next()
generate_output_sentences(p, B, where) ==
    /\ pc[p] = "done"
    /\ it[p].st = "none"
    /\ it' = [it EXCEPT ![p] = [NoGenerator EXCEPT !.st = "running",
                                    !.batch_size = B, !.boundary_in_where = where]]
    /\ UNCHANGED <<mainVars, pathVars, ret, warn>>

\* DataLoader(shuffle=False): batch number k holds the positions k*B, k*B+1, ...
next_batch(n, B, k) == [m \in 1..Min(B, n - k * B) |-> k * B + (m - 1)]

\* lines 270, 277
current_id(i, B, j) == i * B + j

Stop(p, how) == it' = [it EXCEPT ![p] = [@ EXCEPT !.st = how]]

\* lines 252-265: the loader fetches dataset[k] for the next batch, then
\* model.generate is called in the branch boundary_in_where selects
GenNextBatch(p) ==
    /\ it[p].st = "running"
    /\ it[p].j = Len(it[p].batch)
    /\ LET g == it[p]
           k == Len(g.sizes)
           n == effective_size[p]
       IN  IF k * g.batch_size >= n
           THEN Stop(p, "ended")
           ELSE LET b == next_batch(n, g.batch_size, k)
                IN  IF \E m \in DOMAIN b : getitem_raises(p, b[m])
                    THEN Stop(p, "raised")
                    ELSE IF g.boundary_in_where \notin {"Encoder", "Decoder"}
                    THEN it' = [it EXCEPT ![p] =
                                    [g EXCEPT !.st = "raised", !.sizes = Append(@, Len(b))]]
                    ELSE it' = [it EXCEPT ![p] =
                                    [g EXCEPT !.i = k, !.j = 0, !.batch = b,
                                              !.sizes = Append(@, Len(b))]]
    /\ UNCHANGED <<mainVars, pathVars, ret, warn>>

\* lines 267-282: one triple per row of the batch
GenYield(p) ==
    /\ it[p].st = "running"
    /\ it[p].j < Len(it[p].batch)
    /\ LET g == it[p]
           id == current_id(g.i, g.batch_size, g.j)
       IN  IF get_example_raises(p, id)
           THEN Stop(p, "raised")
           ELSE it' = [it EXCEPT ![p] =
                    [g EXCEPT !.j = @ + 1,
                              !.yielded = Append(@,
                                  [example |-> item(examples[p], item(indices[p], id)),
                                   output_sentence |-> "decoded", third |-> "None"])]]
    /\ UNCHANGED <<mainVars, pathVars, ret, warn>>

\* the caller stops consuming the generator
GenAbandon(p) ==
    /\ it[p].st = "running"
    /\ Stop(p, "abandoned")
    /\ UNCHANGED <<mainVars, pathVars, ret, warn>>

UseNext ==
    \/ \E p \in World : Enter(p)
    \/ \E p \in World : CheckCache(p)
    \/ \E p \in World : load_cached_data(p)
    \/ \E p \in World : load_schema(p)
    \/ \E p \in World : LoadData(p)
    \/ \E p \in World : AssignBackrefs(p)
    \/ \E p \in World : ComputeFeatures(p)
    \/ \E p \in World : SaveBegin(p)
    \/ \E p \in World : SaveEnd(p)
    \/ \E p \in World : ComputeIndices(p)
    \/ NewConstruction
    \/ \E p \in World : dunder_len(p)
    \/ \E p \in World : \E i \in probes(p) : dunder_getitem(p, i)
    \/ \E p \in World : \E i \in probes(p) : get_example(p, i)
    \/ \E p \in World : \E B \in BatchSizes, where \in BoundaryModes :
            generate_output_sentences(p, B, where)
    \/ \E p \in World : GenNextBatch(p)
    \/ \E p \in World : GenYield(p)
    \/ \E p \in World : GenAbandon(p)

SpecUse == UseInit /\ [][UseNext]_vars

(***************************************************************************)
(* The cache file name (lines 71-75, 124-128).  Strings are sequences of   *)
(* tokens; a token stands for a run of characters that holds no "_".       *)
(***************************************************************************)
\* str() of a non-negative integer below 100
int_str(n) ==
    LET d(k) == CASE k = 0 -> "0" [] k = 1 -> "1" [] k = 2 -> "2" [] k = 3 -> "3"
                  [] k = 4 -> "4" [] k = 5 -> "5" [] k = 6 -> "6" [] k = 7 -> "7"
                  [] k = 8 -> "8" [] OTHER -> "9"
    IN  IF n < 10 THEN <<d(n)>> ELSE <<d(n \div 10), d(n % 10)>>

NoName == <<>>

\* lines 124-128
data_dir(data_path, ds) ==
    IF ds.data_name # NoName
    THEN data_path \o <<"/">> \o ds.data_name
    ELSE data_path \o <<"/">> \o ds.name

\* lines 71-75
cached_data_file(data_path, ds, fp) ==
    data_dir(data_path, ds) \o <<"/">>
        \o <<"cached", "_">> \o ds.name
        \o <<"_">> \o fp.mode
        \o <<"_">> \o fp.tokenizer
        \o <<"_">> \o int_str(fp.max_input_length)
        \o <<"_">> \o int_str(fp.max_output_length)
        \o <<"_">> \o fp.exp
        \o (IF fp.multitask THEN <<"_", "multitask">> ELSE <<>>)
        \o <<".pth">>

DataPath == <<"data">>

\* dataset classes: name and data_name
DatasetClasses ==
    {[name |-> <<"floorplan">>, data_name |-> NoName],
     [name |-> <<"floorplan", "_", "v2">>, data_name |-> <<"floorplan">>]}

PathModes == {<<"train">>, <<"dev">>}
Tokenizers == {<<"T5Tokenizer">>, <<"BartTokenizer">>}
InputLengths == {8, 12}
OutputLengths == {8, 16}
Exps == {<<"a">>, <<"b">>, <<"a", "_", "multitask">>}

Fingerprints ==
    [mode : PathModes, tokenizer : Tokenizers, max_input_length : InputLengths,
     max_output_length : OutputLengths, exp : Exps, multitask : BOOLEAN]

\* the components the cache is keyed by
key(ds, fp) == [name |-> ds.name, fp |-> fp]

MainIdle ==
    /\ local_rank = <<-1>>
    /\ mode = str(<<"train">>)
    /\ args = CHOOSE a \in ArgSets : a.seed = NoSeed
    /\ output_format_type = "short"
    /\ overwrite_cache = FALSE
    /\ gen = 1
    /\ file = AbsentFile
    /\ arrived = {}
    /\ pc = [p \in World |-> "start"]
    /\ attrs = [p \in World |-> {}]
    /\ examples = [p \in World |-> <<>>]
    /\ features = [p \in World |-> <<>>]
    /\ indices = [p \in World |-> <<>>]
    /\ effective_size = [p \in World |-> 0]
    /\ rng = [p \in World |-> 0]
    /\ log = [p \in World |-> <<>>]
    /\ exists_at_check = [p \in World |-> FALSE]
    /\ observed = [p \in World |-> "none"]
    /\ split_calls = [p \in World |-> <<>>]

PathInit == MainIdle /\ PathIdle /\ UseIdle

\* one construction, seen from the file system: lines 71-82 and 100
Construct(ds, fp, overwrite) ==
    /\ nconstr < MaxPathConstructions
    /\ nconstr' = nconstr + 1
    /\ LET path == cached_data_file(DataPath, ds, fp)
           there == {f \in disk : f.path = path}
       IN  IF there # {} /\ ~overwrite
           THEN /\ loaded' = loaded \cup
                        {[reader |-> key(ds, fp), writer |-> f.writer] : f \in there}
                /\ disk' = disk
           ELSE /\ disk' = (disk \ there) \cup {[path |-> path, writer |-> key(ds, fp)]}
                /\ loaded' = loaded
    /\ UNCHANGED <<mainVars, useVars>>

PathNext == \E ds \in DatasetClasses, fp \in Fingerprints, ow \in BOOLEAN : Construct(ds, fp, ow)

SpecPath == PathInit /\ [][PathNext]_vars

(***************************************************************************)
(* _warn_max_sequence_length (lines 170-176)                               *)
(***************************************************************************)
\* the tokenizer: a word is one token, or two when it is split in pieces
word_pieces(w) == IF w = "floorplan" THEN <<"floor", "plan">> ELSE <<w>>

RECURSIVE tokenize(_)
tokenize(x) == IF x = <<>> THEN <<>> ELSE word_pieces(Head(x)) \o tokenize(Tail(x))

Sentences == {<<"room">>, <<"room", "floorplan">>}

SentenceLists == UNION {[1..n -> Sentences] : n \in 0..MaxSentences}

MaxSequenceLengths == {1, 3}

\* max() over a generator: defined for a non-empty list only
max_length_needed(sentences) ==
    CHOOSE m \in {Len(tokenize(sentences[k])) : k \in DOMAIN sentences} :
        \A k \in DOMAIN sentences : Len(tokenize(sentences[k])) <= m

\* lines 170-176: max() of an empty sequence raises ValueError
warn_max_sequence_length(p, max_sequence_length, sentences) ==
    /\ pc[p] # "start"
    /\ warn' = IF sentences = <<>>
               THEN [called |-> TRUE, max_sequence_length |-> max_sequence_length,
                     sentences |-> sentences, warned |-> FALSE, raised |-> TRUE]
               ELSE [called |-> TRUE, max_sequence_length |-> max_sequence_length,
                     sentences |-> sentences,
                     warned |-> max_length_needed(sentences) > max_sequence_length,
                     raised |-> FALSE]
    /\ UNCHANGED <<mainVars, pathVars, ret, it>>

WarnInit == MainIdle /\ PathIdle /\ UseIdle

WarnNext ==
    \/ \E p \in World : Enter(p)
    \/ \E p \in World : CheckCache(p)
    \/ \E p \in World : load_cached_data(p)
    \/ \E p \in World : load_schema(p)
    \/ \E p \in World : LoadData(p)
    \/ \E p \in World : AssignBackrefs(p)
    \/ \E p \in World : ComputeFeatures(p)
    \/ \E p \in World : SaveBegin(p)
    \/ \E p \in World : SaveEnd(p)
    \/ \E p \in World : ComputeIndices(p)
    \/ NewConstruction
    \/ \E p \in World : \E m \in MaxSequenceLengths, ss \in SentenceLists :
            warn_max_sequence_length(p, m, ss)

SpecWarn == WarnInit /\ [][WarnNext]_vars

(***************************************************************************)
(* Properties                                                              *)
(***************************************************************************)
Called(p, what) == \E i \in DOMAIN log[p] : log[p][i] = what

Constructed(p) == pc[p] = "done"

ValidTypes == {"short-relation", "short", "long", "original"}

\* the formatting policy each output_format_type stands for
policy(T) ==
    CASE T = "short-relation" -> "format_short_output_with_relation"
      [] T = "short"          -> "format_short_output"
      [] T = "long"           -> "format_long_output"
      [] T = "original"       -> "format_short_output_"

\* C1: every constructed dataset has as many features as examples, and the
\* feature in slot k is the pair of sentences made from the example in slot k.
C1_FeaturesParallelExamples ==
    \A p \in World :
        Constructed(p) =>
            /\ Len(features[p]) = Len(examples[p])
            /\ \A k \in DOMAIN features[p] :
                  /\ features[p][k].input_sentence.ex = examples[p][k].id
                  /\ features[p][k].output_sentence.ex = examples[p][k].id

\* C2: with output_format_type unset or unrecognized, construction raises: it
\* never completes, and no example is formatted.
C2_InvalidTypeRaises ==
    \A p \in World :
        output_format_type \notin ValidTypes =>
            /\ ~Constructed(p)
            /\ "features" \notin attrs[p]

\* C3: in a dataset constructed with a valid output_format_type T, every
\* feature's output_sentence is policy T's output for the example of the same
\* slot, whatever constructions used the cache file before.
C3_OutputMatchesPolicy ==
    \A p \in World :
        (Constructed(p) /\ output_format_type \in ValidTypes) =>
            \A k \in DOMAIN features[p] :
                /\ k \in DOMAIN examples[p]
                /\ features[p][k].output_sentence =
                       format_output(policy(output_format_type), examples[p][k])

\* C4: constructions that differ in a component of the fingerprint use
\* different cache files: no construction loads a file written under another
\* fingerprint.
C4_PathSeparatesFingerprints ==
    \A l \in loaded : l.reader = l.writer

\* C5: no process is at load_cached_data while another is inside save_data,
\* and no read of the cache sees a partly written file.
C5_NoReadDuringWrite ==
    /\ \A p, q \in World : ~(pc[p] = "load_cached" /\ pc[q] = "saving")
    /\ \A p \in World : observed[p] # "partial"

\* C6: when the dataset has to be computed, exactly one process runs the
\* load_schema, load_data, compute_features, save_data path and every other
\* process gets its examples and features from the cache file.
C6_OneProcessComputes ==
    ((\A p \in World : Constructed(p)) /\ (\E p \in World : Called(p, "compute_features")))
        => \E p \in World :
              /\ Called(p, "compute_features") /\ Called(p, "save_data")
              /\ \A q \in World \ {p} :
                    Called(q, "load_cached_data") /\ ~Called(q, "compute_features")

\* C7: only a leader writes the cache file, a process of another rank never
\* calls save_data, and at most one process is writing the file at a time.
C7_SingleLeaderWrites ==
    /\ \A p \in World :
          (Called(p, "save_data") \/ pc[p] \in {"save_data", "saving"})
              => is_leader(local_rank[p])
    /\ Cardinality({p \in World : pc[p] = "saving"}) <= 1

Miss(p) == ~exists_at_check[p] \/ overwrite_cache

C8_Calls ==
    \A p \in World :
        Constructed(p) =>
            /\ (/\ Called(p, "load_schema") /\ Called(p, "load_data")
                /\ Called(p, "compute_features")) <=> Miss(p)
            /\ Called(p, "save_data") <=> (Miss(p) /\ is_leader(local_rank[p]))
            /\ Called(p, "load_cached_data") <=> ~Miss(p)
            /\ ~Miss(p) =>
                  /\ ~Called(p, "load_schema") /\ ~Called(p, "load_data")
                  /\ ~Called(p, "compute_features") /\ ~Called(p, "save_data")

OnHitPath(p) == pc[p] = "load_cached" \/ Called(p, "load_cached_data")

C9_State ==
    \A p \in World :
        (observed[p] \notin {"none", "complete"}) =>
            /\ pc[p] = "failed"
            /\ ~Called(p, "load_schema") /\ ~Called(p, "load_data")
            /\ ~Called(p, "compute_features") /\ ~Called(p, "save_data")
            /\ attrs[p] = {}

\* C9: when the file exists, overwrite_cache is false and the file does not
\* deserialize, the construction fails and stays failed: it runs no loader or
\* compiler, does not write the file, and has no examples or features.
C9_CorruptCacheIsFatal ==
    /\ []C9_State
    /\ [][\A p \in World :
            pc[p] = "failed" => (pc'[p] = "failed" /\ (pc' # pc => attrs'[p] = attrs[p]))]_vars

\* C9 witness: a construction that found a corrupt file and failed.
C9_Witness ==
    \E p \in World :
        /\ observed[p] = "corrupt" /\ exists_at_check[p] /\ ~overwrite_cache
        /\ pc[p] = "failed"

IsPrefix(s, t) == Len(s) <= Len(t) /\ SubSeq(t, 1, Len(s)) = s

MissOrder(p) ==
    IF is_leader(local_rank[p])
    THEN <<"load_schema", "load_data", "backrefs", "compute_features", "save_data", "indices">>
    ELSE <<"load_schema", "load_data", "backrefs", "compute_features", "indices">>

\* C10: on the cache-miss path the steps run in the order load_schema,
\* load_data, back-references, compute_features, save_data (leaders only),
\* indices and effective_size; features exist only once compute_features has
\* run, and indices only once the save has finished.
C10_MissPathOrder ==
    \A p \in World :
        (log[p] # <<>> /\ log[p][1] = "load_schema") =>
            /\ IsPrefix(log[p], MissOrder(p))
            /\ "features" \in attrs[p] <=> Called(p, "compute_features")
            /\ "examples" \in attrs[p] => Called(p, "load_data")
            /\ "indices" \in attrs[p] <=> Called(p, "indices")
            /\ Called(p, "indices") => pc[p] \notin {"save_data", "saving"}
            /\ Constructed(p) => log[p] = MissOrder(p)

\* C10 witness: a leader that completed the whole cache-miss path.
C10_Witness ==
    \E p \in World :
        /\ Constructed(p) /\ local_rank[p] = 0
        /\ log[p] = MissOrder(p)
        /\ file.state = "complete"

\* C11: with a seed given, every construction of the dataset ends with the
\* same indices permutation, whether it loaded the data (cache miss) or took
\* the cache file (cache hit).
C11_SameSeedSameIndices ==
    \A p, q \in World :
        (Constructed(p) /\ Constructed(q) /\ args.seed # NoSeed)
            => indices[p] = indices[q]

\* C19: in a constructed dataset every example's back-reference is the
\* dataset instance itself, after load_data and after a cache hit alike.
C19_BackrefIsOwner ==
    \A p \in World :
        Constructed(p) =>
            \A k \in DOMAIN examples[p] : examples[p][k].dataset = Instance(p, gen)

\* C20: no process stays blocked: as long as a process has neither finished
\* nor failed, some step of the construction can still be taken.
C20_NoProcessBlockedForever ==
    (\E p \in World : pc[p] \notin {"done", "failed"}) => ENABLED Next

SavedThisConstruction(q) ==
    /\ Called(q, "save_data") /\ pc[q] \notin {"save_data", "saving"}
    /\ \A r \in World \ {q} : ~Called(r, "save_data")

C14_Splits ==
    CASE mode = str(<<"train">>) -> <<<<"train">>>>
      [] mode = str(<<"test">>) -> <<<<"test">>>>
      [] mode = str(<<"train", ",", "dev">>) -> <<<<"train">>, <<"dev">>>>
      [] mode = list(<<<<"dev">>, <<"train">>>>) -> <<<<"dev">>, <<"train">>>>

C14_Loaded(p) == Called(p, "load_data") /\ pc[p] # "failed"

\* C14: load_data calls the per-split loader once per named split, in the
\* given order, and returns the splits' examples one split after the other,
\* each in its own order, with nothing added, dropped or reordered.
C14_LoadDataConcatenates ==
    \A p \in World :
        C14_Loaded(p) =>
            LET s == C14_Splits
                first == load_data_single_split(s[1])
                second == IF Len(s) = 2 THEN load_data_single_split(s[2]) ELSE <<>>
            IN  /\ split_calls[p] = s
                /\ Len(examples[p]) = Len(first) + Len(second)
                /\ \A k \in 1..Len(first) : examples[p][k].id = first[k].id
                /\ \A k \in 1..Len(second) :
                      examples[p][Len(first) + k].id = second[k].id

C14_Witness ==
    \E p \in World :
        /\ C14_Loaded(p)
        /\ mode = str(<<"train", ",", "dev">>)
        /\ Len(split_calls[p]) = 2
        /\ Len(examples[p]) = NTrain + NDev

Abs(x) == IF x < 0 THEN -x ELSE x

\* e is an integer nearest to num/den, the even one when two are equally near
NearestEven(e, num, den) ==
    /\ 2 * Abs(e * den - num) <= den
    /\ (2 * Abs(e * den - num) = den) => e % 2 = 0

\* C13: after construction effective_size, which is what len(dataset)
\* returns, is round(train_subset * len(examples)); it is len(examples) for
\* train_subset = 1 and exactly 5 for train_subset = 0.5 and 10 examples.
C13_EffectiveSizeIsRounded ==
    \A p \in World :
        Constructed(p) =>
            /\ NearestEven(effective_size[p], args.num * Len(examples[p]), args.den)
            /\ (args.num = args.den) => effective_size[p] = Len(examples[p])
            /\ (args.num = 1 /\ args.den = 2 /\ Len(examples[p]) = 10)
                    => effective_size[p] = 5
            /\ (ret[p].op = "__len__") => ret[p].val = effective_size[p]

C13_Witness ==
    \E p \in World :
        /\ Constructed(p)
        /\ args.num = 1 /\ args.den = 2 /\ Len(examples[p]) = 10
        /\ ret[p].op = "__len__" /\ ret[p].val = 5

IsPermutation(s, n) ==
    /\ Len(s) = n
    /\ \A v \in 0..(n - 1) : \E k \in DOMAIN s : s[k] = v

\* C12: in every constructed dataset indices is a permutation of the slots
\* 0..len(examples)-1 and effective_size <= len(indices), so every position
\* below len(dataset) is served by __getitem__ and get_example from the same
\* existing slot, whatever train_subset the constructor was given.
C12_EveryVisiblePositionExists ==
    \A p \in World :
        Constructed(p) =>
            /\ IsPermutation(indices[p], Len(examples[p]))
            /\ effective_size[p] <= Len(indices[p])
            /\ \A i \in 0..(effective_size[p] - 1) :
                  ~getitem_raises(p, i) /\ ~get_example_raises(p, i)
            /\ (ret[p].op \in {"__getitem__", "get_example"}
                    /\ ret[p].i < effective_size[p]) => ~ret[p].raised

\* C17: once construction has completed, no operation of the dataset
\* (__len__, __getitem__, get_example, generate_output_sentences, a generator
\* abandoned part-way included) changes examples, features, indices or
\* effective_size.
C17_OperationsLeaveDataAlone ==
    [][\A p \in World :
          (Constructed(p) /\ Constructed(p)') =>
              /\ examples'[p] = examples[p]
              /\ features'[p] = features[p]
              /\ indices'[p] = indices[p]
              /\ effective_size'[p] = effective_size[p]]_vars

C17_Witness ==
    \E p \in World :
        /\ Constructed(p)
        /\ it[p].st = "abandoned" /\ Len(it[p].yielded) >= 1
        /\ ret[p].op = "get_example" /\ ~ret[p].raised

Ceil(n, b) == (n + b - 1) \div b

\* C15: for visible length N and batch size B the generator consumes exactly
\* ceil(N/B) batches in index order, all of size B except possibly the last,
\* yields exactly N triples and then ends; the i-th triple (from 0) holds
\* get_example(i) and None as its third component.
C15_GeneratorYieldsEveryExample ==
    \A p \in World :
        (Constructed(p) /\ it[p].st # "none") =>
            LET g == it[p]
                N == effective_size[p]
                B == g.batch_size
            IN  /\ g.st # "raised"
                /\ Len(g.sizes) <= Ceil(N, B)
                /\ \A k \in DOMAIN g.sizes :
                      g.sizes[k] = IF k * B <= N THEN B ELSE N - (k - 1) * B
                /\ Len(g.yielded) <= N
                /\ \A m \in DOMAIN g.yielded :
                      /\ ~get_example_raises(p, m - 1)
                      /\ g.yielded[m].example = item(examples[p], item(indices[p], m - 1))
                      /\ g.yielded[m].third = "None"
                /\ (g.st = "ended") =>
                      Len(g.sizes) = Ceil(N, B) /\ Len(g.yielded) = N

\* C18: _warn_max_sequence_length warns exactly when some sentence of the
\* set tokenizes to more than max_sequence_length tokens, and in every case
\* returns without raising.
C18_WarnsExactlyWhenTooLong ==
    warn.called =>
        /\ ~warn.raised
        /\ warn.warned <=>
              \E k \in DOMAIN warn.sentences :
                  Len(tokenize(warn.sentences[k])) > warn.max_sequence_length

====
